---- MODULE Spec2Model ----
(***************************************************************************)
(* Attendance application (Django): the Student and Absence tables, the    *)
(* roster import, the attendance walk (take_attendance / mark_attendance)  *)
(* and the printable absentee report, as a state machine.                  *)
(*                                                                         *)
(* Time is a tick counter; a calendar day is TicksPerDay ticks long.       *)
(* Text is a sequence of one-character strings, so that str.strip() and    *)
(* the ordering of roll numbers are computed, not assumed.                 *)
(* An Absence row is [student, date_time]; the table is a bag of rows, the *)
(* multiplicity of a row standing for rows that differ in primary key only.*)
(* A mark_attendance call is a sequence of steps (the two clock reads, the *)
(* get and the create of get_or_create, the delete), between which the     *)
(* clock may advance and, in SpecConc, another call may run.               *)
(* Not modelled: Student.created_at, the rendered HTML, the percentage of  *)
(* the report (a float), and the requests that leave both tables as they   *)
(* are (the GET pages, an upload rejected for its type or its columns).    *)
(***************************************************************************)
EXTENDS Integers, Sequences, FiniteSets, Bags, TLC

\* ------------------------------------------------------------- bounds
MaxTime == 3
TicksPerDay == 2
MaxFileLen == 2
MaxIndex == 1

\* -------------------------------------------------------------- text
Alphabet == <<" ", "0", "1", "2", "3", "4", "5", "6", "7", "8", "9", "a", "b", "c">>

Rank(c) == CHOOSE i \in 1..Len(Alphabet) : Alphabet[i] = c

IsSpace(c) == c = " "

RECURSIVE LStrip(_)
LStrip(s) == IF s # <<>> /\ IsSpace(Head(s)) THEN LStrip(Tail(s)) ELSE s

RECURSIVE RStrip(_)
RStrip(s) ==
  IF s # <<>> /\ IsSpace(s[Len(s)]) THEN RStrip(SubSeq(s, 1, Len(s) - 1)) ELSE s

\* str.strip()
Strip(s) == RStrip(LStrip(s))

RECURSIVE Digits(_)
Digits(n) ==
  IF n < 10 THEN <<Alphabet[n + 2]>>
  ELSE Digits(n \div 10) \o <<Alphabet[(n % 10) + 2]>>

\* A spreadsheet cell is a number or a text; str(cell).
IntCell(n) == [t |-> "int", n |-> n, s |-> <<>>]
StrCell(s) == [t |-> "str", n |-> 0, s |-> s]
Str(cell) == IF cell.t = "int" THEN Digits(cell.n) ELSE cell.s

\* a < b in the order of text columns (code point order, shorter prefix first)
RECURSIVE TextLess(_, _)
TextLess(a, b) ==
  IF b = <<>> THEN FALSE
  ELSE IF a = <<>> THEN TRUE
  ELSE IF Head(a) # Head(b) THEN Rank(Head(a)) < Rank(Head(b))
  ELSE TextLess(Tail(a), Tail(b))

\* ------------------------------------------------------------ inputs
RollCells == {StrCell(<<"2">>), StrCell(<<" ", "2", " ">>), IntCell(10)}
NameCells == {StrCell(<<"a">>), StrCell(<<"b", " ">>)}
CourseCells == {StrCell(<<"c">>)}

FileRow == [roll : RollCells, name : NameCells, course : CourseCells]

SeqsUpTo(S, n) == UNION {[1..k -> S] : k \in 0..n}

Files == SeqsUpTo(FileRow, MaxFileLen)

\* the files whose rows all carry one name: rosters that differ in roll numbers only
PlainFiles ==
  {f \in Files : \A i \in 1..Len(f) : f[i].name = StrCell(<<"a">>)}

Workers == {1, 2}
Actions == {"present", "absent"}

\* ids a mark request may name: every id the roster can hold, and one more
RollKeys == {Strip(Str(c)) : c \in RollCells}
StudentIds == 1..(Cardinality(RollKeys) + 1)

\* ------------------------------------------------------------- state
VARIABLES
  now,        \* the wall clock (timezone.now()), in ticks
  students,   \* the Student table: a set of rows
  absences,   \* the Absence table: a bag of rows [student, date_time]
  pc,         \* per request worker: where its mark_attendance call stands
  req,        \* per request worker: the call's parameters and locals
  prev,       \* the mark_attendance call that completed last   (kept by the
  pre,        \* the tables as the call being served found them  sequential runs)
  sess,       \* the operator's walk: the cursor the client holds
  imp_last    \* the import that completed last (recorded by ImportRecorded)

vars == <<now, students, absences, pc, req, prev, pre, sess, imp_last>>

\* ------------------------------------------------------------ models
\* timezone.now().date() / the date_time__date lookup
DateOf(t) == t \div TicksPerDay

\* (a variant that compares date_time with the date itself, i.e. with midnight)
AbsenceFilterExact(abs, sid, d) ==
  LET m == {r \in DOMAIN abs : r.student = sid /\ r.date_time = d * TicksPerDay}
  IN [r \in m |-> abs[r]]

\* Absence.objects.filter(student=..., date_time__date=...): the matching rows
AbsenceFilter(abs, sid, d) ==
  LET m == {r \in DOMAIN abs : r.student = sid /\ DateOf(r.date_time) = d}
  IN [r \in m |-> abs[r]]

\* Absence.objects.filter(date_time__date=...): the rows of one day
AbsencesOn(abs, d) ==
  LET m == {r \in DOMAIN abs : DateOf(r.date_time) = d}
  IN [r \in m |-> abs[r]]

\* Student.objects.all().order_by('roll_number')
RECURSIVE OrderByRoll(_)
OrderByRoll(S) ==
  IF S = {} THEN <<>>
  ELSE LET m == CHOOSE x \in S :
                  \A y \in S \ {x} : TextLess(x.roll_number, y.roll_number)
       IN <<m>> \o OrderByRoll(S \ {m})

\* Student.objects.get_or_create(roll_number=..., defaults=...) over the rows
RECURSIVE ImportRows(_, _, _)
ImportRows(rows, studs, created) ==
  IF rows = <<>> THEN [students |-> studs, students_created |-> created]
  ELSE LET row == Head(rows)
           key == Strip(Str(row.roll))
       IN IF \E s \in studs : s.roll_number = key
          THEN ImportRows(Tail(rows), studs, created)
          ELSE ImportRows(Tail(rows),
                 studs \cup {[id |-> Cardinality(studs) + 1,
                              roll_number |-> key,
                              student_name |-> Strip(Str(row.name)),
                              course_name |-> Strip(Str(row.course))]},
                 created + 1)

\* (a variant that keys the rows by the untrimmed roll number)
RECURSIVE ImportRowsUntrimmed(_, _, _)
ImportRowsUntrimmed(rows, studs, created) ==
  IF rows = <<>> THEN [students |-> studs, students_created |-> created]
  ELSE LET row == Head(rows)
           key == Str(row.roll)
       IN IF \E s \in studs : s.roll_number = key
          THEN ImportRowsUntrimmed(Tail(rows), studs, created)
          ELSE ImportRowsUntrimmed(Tail(rows),
                 studs \cup {[id |-> Cardinality(studs) + 1,
                              roll_number |-> key,
                              student_name |-> Strip(Str(row.name)),
                              course_name |-> Strip(Str(row.course))]},
                 created + 1)

import_students_untrimmed(rows, studs) == ImportRowsUntrimmed(rows, studs, 0)

import_students(rows, studs) == ImportRows(rows, studs, 0)

\* (a variant whose bound check is > instead of >=: index = len raises IndexError)
take_attendance_gt(index) ==
  LET ordered == OrderByRoll(students)
  IN IF index > Len(ordered)
     THEN [outcome |-> "attendance_complete", current_student |-> 0,
           is_absent_today |-> FALSE]
     ELSE IF index < 0 \/ index = Len(ordered)
     THEN [outcome |-> "error", current_student |-> 0, is_absent_today |-> FALSE]
     ELSE [outcome |-> "render", current_student |-> ordered[index + 1].id,
           is_absent_today |->
             AbsenceFilter(absences, ordered[index + 1].id, DateOf(now)) # EmptyBag]

\* take_attendance: the redirect or the student shown at `index`
take_attendance(index) ==
  LET ordered == OrderByRoll(students)
      today == DateOf(now)
  IN IF index >= Len(ordered)
     THEN [outcome |-> "attendance_complete", current_student |-> 0,
           is_absent_today |-> FALSE]
     ELSE IF index < 0
     THEN [outcome |-> "error", current_student |-> 0, is_absent_today |-> FALSE]
     ELSE [outcome |-> "render", current_student |-> ordered[index + 1].id,
           is_absent_today |->
             AbsenceFilter(absences, ordered[index + 1].id, today) # EmptyBag]

\* (a variant whose present count subtracts the absences of every day)
print_absentees_all_days ==
  LET today == DateOf(now)
  IN [date |-> today,
      total_absent |-> BagCardinality(AbsencesOn(absences, today)),
      total_present |-> Cardinality(students) - BagCardinality(absences)]

\* print_absentees: the counts of the printable report, for today
print_absentees ==
  LET today == DateOf(now)
      absent_students == AbsencesOn(absences, today)
      total_students == Cardinality(students)
  IN [date |-> today,
      total_absent |-> BagCardinality(absent_students),
      total_present |-> total_students - BagCardinality(absent_students)]

\* (a variant whose filter leaves out the student)
DeleteAbsencesOfDay(abs, sid, d) == abs (-) AbsencesOn(abs, d)

\* .delete() on the filtered rows: one DELETE statement
DeleteAbsences(abs, sid, d) == abs (-) AbsenceFilter(abs, sid, d)

\* Absence.objects.create(student=..., date_time=...)
CreateAbsence(abs, sid, t) == abs (+) SetToBag({[student |-> sid, date_time |-> t]})

\* ------------------------------------------------------------- Init
IdleReq ==
  [student_id |-> 0, action |-> "none", current_index |-> 0, walk |-> FALSE,
   today |-> -1, date_time |-> -1, status |-> 0]

NoSnap == [absences |-> EmptyBag, students |-> {}]

NoCall == [student_id |-> 0, action |-> "none", today |-> -1]

NoWalk == [phase |-> "none", pos |-> 0, cur |-> 0, shown |-> <<>>, marks |-> 0, n0 |-> 0]

NoImport == [valid |-> FALSE, rows |-> <<>>, pre |-> {}, students_created |-> 0]

Init ==
  /\ now = 0
  /\ students = {}
  /\ absences = EmptyBag
  /\ pc = [w \in Workers |-> "idle"]
  /\ req = [w \in Workers |-> IdleReq]
  /\ prev = NoCall
  /\ pre = NoSnap
  /\ sess = NoWalk
  /\ imp_last = NoImport

AllIdle == \A w \in Workers : pc[w] = "idle"

\* ---------------------------------------------------------- actions
\* the clock advances
Tick ==
  /\ now < MaxTime
  /\ now' = now + 1
  /\ UNCHANGED <<students, absences, pc, req, prev, pre, sess, imp_last>>

\* import_students (POST with a readable file holding the three columns)
Import(rows) ==
  /\ students' = import_students(rows, students).students
  /\ UNCHANGED <<now, absences, pc, req, prev, pre, sess, imp_last>>

\* the same, with the call and its created-count kept for inspection
ImportRecorded(rows) ==
  LET r == import_students(rows, students)
  IN /\ students' = r.students
     /\ imp_last' = [valid |-> TRUE, rows |-> rows, pre |-> students,
                     students_created |-> r.students_created]
     /\ UNCHANGED <<now, absences, pc, req, prev, pre, sess>>

\* mark_attendance, POST: lines 102-107 (parameters, the student or 404, today)
BeginMark(w, sid, act, idx, walk) ==
  /\ pc[w] = "idle"
  /\ IF \E s \in students : s.id = sid
     THEN /\ req' = [req EXCEPT ![w] =
                       [student_id |-> sid, action |-> act, current_index |-> idx,
                        walk |-> walk, today |-> DateOf(now), date_time |-> -1,
                        status |-> 0]]
          /\ pc' = [pc EXCEPT ![w] = IF act = "absent" THEN "defaults" ELSE "delete"]
     ELSE /\ req' = [req EXCEPT ![w] =
                       [student_id |-> sid, action |-> act, current_index |-> idx,
                        walk |-> walk, today |-> -1, date_time |-> -1,
                        status |-> 404]]
          /\ pc' = [pc EXCEPT ![w] = "done"]
  /\ UNCHANGED <<now, students, absences, imp_last>>

\* a mark request that does not come from the walk
MarkBegin(w, sid, act, idx) ==
  /\ BeginMark(w, sid, act, idx, FALSE)
  /\ UNCHANGED sess

\* line 114: the defaults of get_or_create are evaluated before the call
MarkDefaults(w) ==
  /\ pc[w] = "defaults"
  /\ req' = [req EXCEPT ![w].date_time = now]
  /\ pc' = [pc EXCEPT ![w] = "get"]
  /\ UNCHANGED <<now, students, absences, prev, pre, sess, imp_last>>

\* get_or_create: the get; one row is returned, several raise
MarkGet(w) ==
  /\ pc[w] = "get"
  /\ LET n == BagCardinality(AbsenceFilter(absences, req[w].student_id, req[w].today))
     IN IF n = 0 THEN /\ pc' = [pc EXCEPT ![w] = "create"]
                      /\ req' = req
        ELSE /\ pc' = [pc EXCEPT ![w] = "done"]
             /\ req' = [req EXCEPT ![w].status = IF n = 1 THEN 302 ELSE 500]
  /\ UNCHANGED <<now, students, absences, prev, pre, sess, imp_last>>

\* get_or_create: the create, after a get that found nothing
MarkCreate(w) ==
  /\ pc[w] = "create"
  /\ absences' = CreateAbsence(absences, req[w].student_id, req[w].date_time)
  /\ req' = [req EXCEPT ![w].status = 302]
  /\ pc' = [pc EXCEPT ![w] = "done"]
  /\ UNCHANGED <<now, students, prev, pre, sess, imp_last>>

\* lines 118-121: the rows of the student dated today are deleted
MarkDelete(w) ==
  /\ pc[w] = "delete"
  /\ absences' = DeleteAbsences(absences, req[w].student_id, req[w].today)
  /\ req' = [req EXCEPT ![w].status = 302]
  /\ pc' = [pc EXCEPT ![w] = "done"]
  /\ UNCHANGED <<now, students, prev, pre, sess, imp_last>>

\* lines 124-125: the redirect to index + 1, which the walk follows
MarkRespond(w) ==
  /\ pc[w] = "done"
  /\ sess' = IF ~req[w].walk THEN sess
             ELSE IF req[w].status = 302
             THEN [sess EXCEPT !.phase = "fetch", !.pos = req[w].current_index + 1,
                               !.marks = sess.marks + 1]
             ELSE [sess EXCEPT !.phase = "error"]
  /\ pc' = [pc EXCEPT ![w] = "idle"]
  /\ req' = [req EXCEPT ![w] = IdleReq]
  /\ UNCHANGED <<now, students, absences, imp_last>>

\* the operator opens the walk at index 0
SessionStart ==
  /\ sess.phase \in {"none", "attendance_complete"}
  /\ sess' = [phase |-> "fetch", pos |-> 0, cur |-> 0, shown |-> <<>>, marks |-> 0,
              n0 |-> Cardinality(students)]
  /\ UNCHANGED <<now, students, absences, pc, req, prev, pre, imp_last>>

\* take_attendance at the walk's index
SessionFetch ==
  /\ sess.phase = "fetch"
  /\ LET r == take_attendance(sess.pos)
     IN sess' = IF r.outcome = "render"
                THEN [sess EXCEPT !.phase = "shown", !.cur = r.current_student,
                                  !.shown = Append(sess.shown, r.current_student)]
                ELSE [sess EXCEPT !.phase = r.outcome]
  /\ UNCHANGED <<now, students, absences, pc, req, prev, pre, imp_last>>

\* the operator's decision on the student shown
SessionMark(w, act) ==
  /\ sess.phase = "shown"
  /\ BeginMark(w, sess.cur, act, sess.pos, TRUE)
  /\ sess' = [sess EXCEPT !.phase = "marking"]

\* ---------------------------------------------------- specifications
Step(w) ==
  \/ MarkDefaults(w)
  \/ MarkGet(w)
  \/ MarkCreate(w)
  \/ MarkDelete(w)

\* Requests are served one after the other, by one worker; the tables a call
\* found and the call that completed last are kept.
Server == CHOOSE w \in Workers : TRUE

Snapshot == pre' = [absences |-> absences, students |-> students]

Completed(w) ==
  IF req[w].status = 302
  THEN [student_id |-> req[w].student_id, action |-> req[w].action,
        today |-> req[w].today]
  ELSE NoCall

RosterImport == AllIdle /\ \E rows \in PlainFiles : Import(rows)
SeqMarkBegin ==
  /\ AllIdle
  /\ \E sid \in StudentIds, act \in Actions, idx \in 0..MaxIndex :
       MarkBegin(Server, sid, act, idx)
  /\ Snapshot /\ UNCHANGED prev
SeqStep == Step(Server)
SeqRespond == MarkRespond(Server) /\ prev' = Completed(Server) /\ pre' = NoSnap

Next ==
  \/ Tick
  \/ RosterImport
  \/ SeqMarkBegin
  \/ SeqStep
  \/ SeqRespond

Spec == Init /\ [][Next]_vars

\* The walk of one operator, requests served one after the other.
WalkFetch == AllIdle /\ SessionFetch
WalkMark ==
  /\ AllIdle
  /\ \E act \in Actions : SessionMark(Server, act)
  /\ UNCHANGED <<prev, pre>>
WalkRespond == MarkRespond(Server) /\ UNCHANGED <<prev, pre>>

NextWalk ==
  \/ Tick
  \/ RosterImport
  \/ SessionStart
  \/ WalkFetch
  \/ WalkMark
  \/ SeqStep
  \/ WalkRespond

SpecWalk == Init /\ [][NextWalk]_vars

\* Mark requests of two workers interleave; the roster is imported between them.
ConcMarkBegin ==
  /\ \E w \in Workers, sid \in StudentIds, act \in Actions : MarkBegin(w, sid, act, 0)
  /\ UNCHANGED <<prev, pre>>
ConcStep == \E w \in Workers : Step(w)
ConcRespond == \E w \in Workers : MarkRespond(w) /\ UNCHANGED <<prev, pre>>

NextConc ==
  \/ Tick
  \/ RosterImport
  \/ ConcMarkBegin
  \/ ConcStep
  \/ ConcRespond

SpecConc == Init /\ [][NextConc]_vars

\* Imports alone, each one recorded.
NextImport == \E rows \in Files : ImportRecorded(rows)

SpecImport == Init /\ [][NextImport]_vars

\* ------------------------------------------------------- properties
Days == 0..DateOf(MaxTime)

\* the number of Absence rows of student sid dated on day d
RowsOf(abs, sid, d) ==
  BagCardinality([r \in {x \in DOMAIN abs :
                           x.student = sid /\ x.date_time \div TicksPerDay = d}
                    |-> abs[r]])

\* the number of Absence rows dated on day d
RowsOn(abs, d) ==
  BagCardinality([r \in {x \in DOMAIN abs : x.date_time \div TicksPerDay = d}
                    |-> abs[r]])

\* rows inserted and rows deleted between two states of the table
Inserted(before, after) == BagCardinality(after (-) before)
Deleted(before, after) == BagCardinality(before (-) after)

\* the call being served has run to its redirect
Served == pc[Server] = "done" /\ req[Server].status = 302
Call == req[Server]

\* C1: served one after the other from an empty table, mark calls leave at most
\* one Absence row for every student and calendar day, the day advancing freely.
C1_OneRowPerStudentDay ==
  \A sid \in StudentIds, d \in Days : RowsOf(absences, sid, d) <= 1

C1_Witness ==
  /\ \E sid \in StudentIds : \A d \in Days : RowsOf(absences, sid, d) = 1
  /\ prev.action = "absent"
  /\ AllIdle

C3_Toggle ==
  (Served /\ Call.action = "present")
  => /\ (prev = [student_id |-> Call.student_id, action |-> "absent",
                 today |-> Call.today])
        => RowsOf(absences, Call.student_id, Call.today) = 0
     /\ RowsOf(pre.absences, Call.student_id, Call.today) = 0
        => absences = pre.absences

C3_Witness ==
  /\ Served
  /\ Call.action = "present"
  /\ prev = [student_id |-> Call.student_id, action |-> "absent",
             today |-> Call.today]
  /\ RowsOf(pre.absences, Call.student_id, Call.today) = 1
  /\ absences # EmptyBag

C9_RowDatedToday ==
  (Served /\ Call.action = "absent")
  => RowsOf(absences, Call.student_id, Call.today) = 1

\* C10, as stated: a mark call changes only Absence rows of its student dated
\* today; the rows of other students, the student's rows of other days and the
\* Student table are as before.
C10_MarkFrame ==
  Served =>
    /\ students = pre.students
    /\ \A r \in DOMAIN absences \cup DOMAIN pre.absences :
         (r.student # Call.student_id \/ r.date_time \div TicksPerDay # Call.today)
         => CopiesIn(r, absences) = CopiesIn(r, pre.absences)

\* C8, as stated: with two mark(S, ABSENT) requests interleaved between the get
\* and the create, no student ever has two Absence rows on one day.
C8_NoDuplicateUnderRace ==
  \A r \in DOMAIN absences :
    RowsOf(absences, r.student, r.date_time \div TicksPerDay) = 1

\* the roll number of the student with this id
RollOf(id) == (CHOOSE s \in students : s.id = id).roll_number

WalkStarted == sess.phase # "none" /\ Cardinality(students) = sess.n0

\* C5: with the roster unchanged since the walk began at 0, the students shown
\* are distinct and ascend by roll number, every mark moves the cursor by one,
\* the walk completes after exactly N marks having shown every student, and
\* take_attendance redirects to the completion report exactly at index >= N.
C5_Walk ==
  LET N == Cardinality(students)
      onScreen == sess.phase \in {"shown", "marking"}
  IN /\ \A i \in 0..(N + 1) :
          take_attendance(i).outcome = "attendance_complete" <=> i >= N
     /\ WalkStarted =>
          /\ sess.phase \in {"fetch", "shown", "marking", "attendance_complete"}
          /\ sess.marks = sess.pos
          /\ Len(sess.shown) = IF onScreen THEN sess.pos + 1 ELSE sess.pos
          /\ \A i \in 1..Len(sess.shown) : \E s \in students : s.id = sess.shown[i]
          /\ \A i, j \in 1..Len(sess.shown) :
               i < j => TextLess(RollOf(sess.shown[i]), RollOf(sess.shown[j]))
          /\ onScreen => sess.pos < N
          /\ sess.phase = "attendance_complete" =>
               /\ sess.marks = N
               /\ {sess.shown[i] : i \in 1..Len(sess.shown)} = {s.id : s \in students}

C5_Witness ==
  /\ WalkStarted
  /\ sess.phase = "attendance_complete"
  /\ sess.marks = 2
  /\ sess.shown = <<2, 1>>

\* C6: in every state reached by imports and mark calls the report of the day
\* has totalPresent + totalAbsent = the roster size, totalAbsent being the
\* number of Absence rows dated that day.
C6_Report ==
  LET r == print_absentees
  IN /\ r.date = now \div TicksPerDay
     /\ r.total_absent = RowsOn(absences, r.date)
     /\ r.total_present + r.total_absent = Cardinality(students)

C6_Witness ==
  /\ AllIdle
  /\ Cardinality(students) = 2
  /\ print_absentees.total_absent = 1
  /\ print_absentees.total_present = 1
  /\ prev.action = "present"
  /\ prev.today = DateOf(now)
  /\ \E r \in DOMAIN absences : r.date_time \div TicksPerDay # DateOf(now)

\* the trimmed roll numbers of a file
KeysOf(rows) == {Strip(Str(rows[i].roll)) : i \in 1..Len(rows)}

\* C7: an import into a roster holding none of the file's roll numbers creates
\* as many students as the file has distinct trimmed roll numbers; importing
\* the same file again creates none; students that existed keep their rows.
C7_ImportUpsert ==
  imp_last.valid =>
    /\ (\A s \in imp_last.pre : s.roll_number \notin KeysOf(imp_last.rows))
       => imp_last.students_created = Cardinality(KeysOf(imp_last.rows))
    /\ import_students(imp_last.rows, students).students_created = 0
    /\ import_students(imp_last.rows, students).students = students
    /\ imp_last.pre \subseteq students
    /\ Cardinality(students) = Cardinality(imp_last.pre) + imp_last.students_created
    /\ \A s, t \in students : s.roll_number = t.roll_number => s = t

C7_Witness ==
  /\ imp_last.valid
  /\ Len(imp_last.rows) = 2
  /\ Cardinality(KeysOf(imp_last.rows)) = 1
  /\ imp_last.rows[1].roll # imp_last.rows[2].roll
  /\ imp_last.rows[1].name # imp_last.rows[2].name
  /\ imp_last.pre = {}
  /\ imp_last.students_created = 1

====
